---------------------------- MODULE Spec2Model ----------------------------
(***************************************************************************)
(* PageRange::parse (src/src/util/PageRange.cpp) as a state machine.       *)
(*                                                                         *)
(* A text is a sequence of one-character strings.  One behaviour is one    *)
(* call parse(s, pageCount): ParseBegin is the prologue (the token         *)
(* iterator and the pageCount check), LoopBody is one iteration of the     *)
(* for-loop over the tokens, Return is the final return statement.         *)
(***************************************************************************)
EXTENDS Integers, Sequences, FiniteSets, TLC

(***************************************************************************)
(* Bounds of the model.                                                    *)
(***************************************************************************)
\* longest input text, in characters
MaxLen == 4
\* largest pageCount tried (0 is tried too)
MaxPages == 3
\* width of size_t in bits, scaled down so that a short numeral overflows it
SizeBits == 3

SizeMod == 2 ^ SizeBits
SizeMax == SizeMod - 1

\* the characters the input texts are drawn from: digits, the hyphen, a white
\* space, the three separators, and two characters outside the grammar
Chars == {"0", "1", "2", "3", "-", " ", ",", ";", ":", "a", "+"}

Texts == UNION {[1..n -> Chars] : n \in 0..MaxLen}

(***************************************************************************)
(* Character classes of the regular expressions.                           *)
(***************************************************************************)
\* the class [,;:] of the regex `separators`
Separators == {",", ";", ":"}

\* the class \s
WhiteSpace == {" ", "\t", "\n", "\r", "\f"}

\* the class \d, with the value of each digit
DigitValue == ("0" :> 0) @@ ("1" :> 1) @@ ("2" :> 2) @@ ("3" :> 3) @@ ("4" :> 4) @@ ("5" :> 5) @@ ("6" :> 6) @@ ("7" :> 7) @@ ("8" :> 8) @@ ("9" :> 9)

Digits == DOMAIN DigitValue

(***************************************************************************)
(* std::sregex_token_iterator(s.cbegin(), s.cend(), separators, -1).       *)
(* Submatch -1 yields the text before each match of `separators`; after    *)
(* the last match the suffix is yielded only when it is not empty; when    *)
(* there is no match at all the whole text is yielded, even an empty one.  *)
(* tokStart is where the current token starts (1 while nothing matched).   *)
(***************************************************************************)
RECURSIVE TokensFrom(_, _, _)
TokensFrom(s, tokStart, i) ==
    IF i > Len(s)
    THEN IF tokStart = 1 \/ tokStart <= Len(s)
         THEN <<SubSeq(s, tokStart, Len(s))>>
         ELSE <<>>
    ELSE IF s[i] \in Separators
         THEN <<SubSeq(s, tokStart, i - 1)>> \o TokensFrom(s, i + 1, i + 1)
         ELSE TokensFrom(s, tokStart, i + 1)

TokenIterator(s) == TokensFrom(s, 1, 1)

(***************************************************************************)
(* The five regular expressions, each a sequence of atoms, and             *)
(* std::regex_match: the whole string must match.  The classes \s, \d and  *)
(* the hyphen are pairwise disjoint and no two adjacent atoms share a      *)
(* class, so the greedy scan below finds the match whenever there is one.  *)
(***************************************************************************)
singlePage     == <<"\\s*", "(\\d+)", "\\s*">>
rightOpenRange == <<"\\s*", "(\\d+)", "\\s*", "-", "\\s*">>
leftOpenRange  == <<"\\s*", "-", "\\s*", "(\\d+)", "\\s*">>
pageRange      == <<"\\s*", "(\\d+)", "\\s*", "-", "\\s*", "(\\d+)", "\\s*">>
bothOpenRange  == <<"\\s*", "-", "\\s*">>

NoMatch == [matched |-> FALSE, groups |-> <<>>]

\* the first index at or after i whose character is not in class
RECURSIVE SkipClass(_, _, _)
SkipClass(str, i, class) ==
    IF i <= Len(str) /\ str[i] \in class THEN SkipClass(str, i + 1, class) ELSE i

RECURSIVE MatchFrom(_, _, _, _)
MatchFrom(str, i, regex, groups) ==
    IF regex = <<>>
    THEN IF i > Len(str) THEN [matched |-> TRUE, groups |-> groups] ELSE NoMatch
    ELSE CASE Head(regex) = "\\s*" ->
                MatchFrom(str, SkipClass(str, i, WhiteSpace), Tail(regex), groups)
           [] Head(regex) = "(\\d+)" ->
                LET j == SkipClass(str, i, Digits)
                IN  IF j = i THEN NoMatch
                    ELSE MatchFrom(str, j, Tail(regex), Append(groups, SubSeq(str, i, j - 1)))
           [] Head(regex) = "-" ->
                IF i <= Len(str) /\ str[i] = "-"
                THEN MatchFrom(str, i + 1, Tail(regex), groups)
                ELSE NoMatch

\* regex_match that accepts a match of a prefix of the string
regex_match_Prefix(str, regex) ==
    LET ks == {k \in 0..Len(str) : MatchFrom(SubSeq(str, 1, k), 1, regex, <<>>).matched}
    IN  IF ks = {} THEN NoMatch
        ELSE MatchFrom(SubSeq(str, 1, CHOOSE k \in ks : \A j \in ks : j <= k), 1, regex, <<>>)

regex_match(str, regex) == MatchFrom(str, 1, regex, <<>>)

(***************************************************************************)
(* std::from_chars into a size_t.  The token is a non-empty digit string.  *)
(* When its value does not fit the type, from_chars reports                *)
(* result_out_of_range and leaves the target unmodified; parse ignores the *)
(* report, and the target is a field of the `PageRangeEntry entry;`        *)
(* declared in the loop body and never assigned before, so what is read    *)
(* afterwards is whatever the field's storage holds.                       *)
(***************************************************************************)
RECURSIVE DecimalValue(_)
DecimalValue(token) ==
    IF token = <<>> THEN 0
    ELSE 10 * DecimalValue(SubSeq(token, 1, Len(token) - 1)) + DigitValue[token[Len(token)]]

\* the values the storage of an unassigned field of `entry` may hold
Indeterminate == 0..SizeMax

\* the values the target may hold after from_chars(token, target)
from_chars(token) ==
    IF DecimalValue(token) > SizeMax THEN Indeterminate ELSE {DecimalValue(token)}

(***************************************************************************)
(* The if-else block of the loop body: the raw (1-based) entries the       *)
(* string may leave in `entry`; the empty set when no regex matches.       *)
(***************************************************************************)
Recognize(str, pageCount) ==
    LET m1 == regex_match(str, singlePage)
        m2 == regex_match(str, rightOpenRange)
        m3 == regex_match(str, leftOpenRange)
        m4 == regex_match(str, pageRange)
        m5 == regex_match(str, bothOpenRange)
    IN  IF m1.matched
        THEN {[first |-> v, last |-> v] : v \in from_chars(m1.groups[1])}
        ELSE IF m2.matched
        THEN {[first |-> v, last |-> pageCount] : v \in from_chars(m2.groups[1])}
        ELSE IF m3.matched
        THEN {[first |-> 1, last |-> v] : v \in from_chars(m3.groups[1])}
        ELSE IF m4.matched
        THEN {[first |-> a, last |-> b] : a \in from_chars(m4.groups[1]),
                                          b \in from_chars(m4.groups[2])}
        ELSE IF m5.matched
        THEN {[first |-> 1, last |-> pageCount]}
        ELSE {}

(***************************************************************************)
(* The three checks after the if-else block, in the order of the code, and *)
(* the decrement of both fields (size_t arithmetic).                       *)
(***************************************************************************)
\* Validate without the zero check
Validate_NoZeroCheck(entry, pageCount) ==
    IF entry.first > pageCount \/ entry.last > pageCount THEN "OutOfRange"
    ELSE IF entry.last < entry.first THEN "InvalidOrder"
    ELSE "ok"

\* Validate with the ordering check moved before the upper-bound check
Validate_OrderFirst(entry, pageCount) ==
    IF entry.last < entry.first THEN "InvalidOrder"
    ELSE IF entry.first > pageCount \/ entry.last > pageCount THEN "OutOfRange"
    ELSE IF entry.first = 0 THEN "InvalidPageNumber"
    ELSE "ok"

Validate(entry, pageCount) ==
    IF entry.first > pageCount \/ entry.last > pageCount THEN "OutOfRange"
    ELSE IF entry.last < entry.first THEN "InvalidOrder"
    ELSE IF entry.first = 0 THEN "InvalidPageNumber"
    ELSE "ok"

\* Decrement that forgets entry.last
Decrement_FirstOnly(entry) ==
    [first |-> (entry.first - 1) % SizeMod, last |-> entry.last]

Decrement(entry) ==
    [first |-> (entry.first - 1) % SizeMod, last |-> (entry.last - 1) % SizeMod]

\* `entry` where no field of it has been assigned or read
NoEntry == [first |-> 0, last |-> 0]

\* what one iteration of the loop may do with the token str: raw is `entry`
\* as the checks read it, kind is the error thrown, or "ok" when the
\* decremented entry is pushed
IterationOutcomes(str, pageCount) ==
    LET raws == Recognize(str, pageCount)
    IN  IF raws = {}
        THEN {[kind |-> "InvalidRange", raw |-> NoEntry]}
        ELSE {[kind |-> Validate(e, pageCount), raw |-> e] : e \in raws}

ParseErrors == {"InvalidRange", "OutOfRange", "InvalidOrder", "InvalidPageNumber"}

(***************************************************************************)
(* parse as a function of its arguments: the set of ways a call may end    *)
(* (a set because of the indeterminate values above).  Loop(toks, i, acc)  *)
(* is the for-loop from position i with acc in `entries`.                  *)
(***************************************************************************)
RECURSIVE Loop(_, _, _, _)
Loop(toks, i, acc, pageCount) ==
    IF i > Len(toks)
    THEN {[outcome |-> "returned", result |-> acc]}
    ELSE UNION {IF o.kind = "ok"
                THEN Loop(toks, i + 1, Append(acc, Decrement(o.raw)), pageCount)
                ELSE {[outcome |-> o.kind, result |-> <<>>]} :
                    o \in IterationOutcomes(toks[i], pageCount)}

parse(text, pageCount) ==
    IF pageCount = 0
    THEN {[outcome |-> "InvalidConfiguration", result |-> <<>>]}
    ELSE Loop(TokenIterator(text), 1, <<>>, pageCount)

(***************************************************************************)
(* The state of one call.                                                  *)
(***************************************************************************)
VARIABLES
    s,          \* the argument s
    pageCount,  \* the argument pageCount
    pc,         \* "call", "loop" or "done"
    tokens,     \* what the token iterator yields, in order
    it,         \* the loop's position in tokens, from 1
    entries,    \* the local vector entries
    entry,      \* the local entry of the latest iteration, as lines 95-103 read it
    outcome,    \* "pending", "returned", "InvalidConfiguration" or a parse error
    result      \* the vector the caller receives (empty unless outcome = "returned")

vars == <<s, pageCount, pc, tokens, it, entries, entry, outcome, result>>

Init ==
    /\ s \in Texts
    /\ pageCount \in 0..MaxPages
    /\ pc = "call"
    /\ tokens = <<>>
    /\ it = 1
    /\ entries = <<>>
    /\ entry = NoEntry
    /\ outcome = "pending"
    /\ result = <<>>

\* ParseBegin without the pageCount check
ParseBegin_NoCheck ==
    /\ pc = "call"
    /\ tokens' = TokenIterator(s)
    /\ entries' = <<>>
    /\ it' = 1
    /\ pc' = "loop"
    /\ outcome' = "pending"
    /\ UNCHANGED <<s, pageCount, entry, result>>

\* lines 40-48: the token iterator, the empty vector, the pageCount check
ParseBegin ==
    /\ pc = "call"
    /\ tokens' = TokenIterator(s)
    /\ entries' = <<>>
    /\ it' = 1
    /\ IF pageCount = 0
       THEN pc' = "done" /\ outcome' = "InvalidConfiguration"
       ELSE pc' = "loop" /\ outcome' = "pending"
    /\ UNCHANGED <<s, pageCount, entry, result>>

\* lines 66-109: one iteration; a throw unwinds the call, entries included
LoopBody ==
    /\ pc = "loop"
    /\ it <= Len(tokens)
    /\ \E o \in IterationOutcomes(tokens[it], pageCount) :
         /\ entry' = o.raw
         /\ IF o.kind = "ok"
            THEN /\ entries' = Append(entries, Decrement(o.raw))
                 /\ it' = it + 1
                 /\ UNCHANGED <<pc, outcome>>
            ELSE /\ pc' = "done"
                 /\ outcome' = o.kind
                 /\ entries' = <<>>
                 /\ UNCHANGED it
    /\ UNCHANGED <<s, pageCount, tokens, result>>

\* line 110
Return ==
    /\ pc = "loop"
    /\ it > Len(tokens)
    /\ pc' = "done"
    /\ outcome' = "returned"
    /\ result' = entries
    /\ UNCHANGED <<s, pageCount, tokens, it, entries, entry>>

Next == ParseBegin \/ LoopBody \/ Return

Spec == Init /\ [][Next]_vars

(***************************************************************************)
(* Notation of the properties.                                             *)
(***************************************************************************)
DigitChar(d) == CHOOSE c \in Digits : DigitValue[c] = d

\* the decimal numeral of n, without leading zeros
RECURSIVE Numeral(_)
Numeral(n) ==
    IF n < 10 THEN <<DigitChar(n)>> ELSE Numeral(n \div 10) \o <<DigitChar(n % 10)>>

\* the i-th separator-delimited sub-expression of text, counted from 1: the
\* characters that are not separators and have i-1 separators to their left
SeparatorCount(text) == Cardinality({p \in 1..Len(text) : text[p] \in Separators})

SubExpressionCount(text) == SeparatorCount(text) + 1

SubExpression(text, i) ==
    LET idx == {p \in 1..Len(text) :
                   /\ text[p] \notin Separators
                   /\ Cardinality({q \in 1..(p - 1) : text[q] \in Separators}) = i - 1}
    IN  IF idx = {} THEN <<>>
        ELSE LET lo == CHOOSE p \in idx : \A q \in idx : p <= q
             IN  [k \in 1..Cardinality(idx) |-> text[lo + k - 1]]

\* the sub-expressions the loop has dealt with: those it accepted, and the
\* one it threw on
Accepted(i) == pc \in {"loop", "done"} /\ i < it
ThrewOn(i) == pc = "done" /\ outcome \in ParseErrors /\ it = i

\* str is the decimal numeral of a number in range
IsNumeralIn(str, range) == \E x \in range : str = Numeral(x)

\* the number whose decimal numeral str is
NumeralValue(str, range) == CHOOSE x \in range : str = Numeral(x)

\* the raw entry of a sub-expression that is one of the five shapes written
\* without white space, with numerals of numbers in range: n gives (n, n),
\* n- gives (n, pageCount), -m gives (1, m), n-m gives (n, m), - gives
\* (1, pageCount); the empty set for every other string
ShapeRaw(str, range) ==
    LET hyphens == {k \in 1..Len(str) : str[k] = "-"}
    IN  IF Cardinality(hyphens) = 0
        THEN IF IsNumeralIn(str, range)
             THEN {[first |-> NumeralValue(str, range), last |-> NumeralValue(str, range)]}
             ELSE {}
        ELSE IF Cardinality(hyphens) = 1
        THEN LET h == CHOOSE k \in hyphens : TRUE
                 n == SubSeq(str, 1, h - 1)
                 m == SubSeq(str, h + 1, Len(str))
             IN  IF (n # <<>> /\ ~IsNumeralIn(n, range)) \/ (m # <<>> /\ ~IsNumeralIn(m, range))
                 THEN {}
                 ELSE {[first |-> IF n = <<>> THEN 1 ELSE NumeralValue(n, range),
                        last |-> IF m = <<>> THEN pageCount ELSE NumeralValue(m, range)]}
        ELSE {}

(***************************************************************************)
(* C1: whenever parse returns normally with pageCount >= 1, every entry    *)
(* of the returned sequence satisfies 0 <= first <= last < pageCount.      *)
(***************************************************************************)
C1_EntriesWithinPages ==
    outcome = "returned" =>
        \A i \in 1..Len(result) :
            /\ 0 <= result[i].first
            /\ result[i].first <= result[i].last
            /\ result[i].last < pageCount

\* a call that returned two entries, one from a numeral too large for size_t
C1_Witness ==
    /\ outcome = "returned"
    /\ Len(result) = 2
    /\ \E i \in 1..2 : Cardinality(Recognize(tokens[i], pageCount)) > 1

(***************************************************************************)
(* C2: for numerals 1 <= n <= m <= pageCount the sub-expressions n, n-,    *)
(* -m, n-m and - are accepted and yield {n-1,n-1}, {n-1,pageCount-1},      *)
(* {0,m-1}, {n-1,m-1} and {0,pageCount-1}.                                 *)
(***************************************************************************)
C2_FiveShapes ==
    \A i \in 1..SubExpressionCount(s) :
        Accepted(i) \/ ThrewOn(i) =>
            \A r \in {x \in ShapeRaw(SubExpression(s, i), 1..pageCount) : x.first <= x.last} :
                /\ ~ThrewOn(i)
                /\ pc = "loop" => entries[i] = [first |-> r.first - 1, last |-> r.last - 1]
                /\ outcome = "returned" =>
                       result[i] = [first |-> r.first - 1, last |-> r.last - 1]

\* a call that returned the entries of a closed range n-m with n < m
C2_Witness ==
    /\ outcome = "returned"
    /\ \E n \in 1..pageCount : \E m \in (n + 1)..pageCount :
          /\ s = Numeral(n) \o <<"-">> \o Numeral(m)
          /\ result = <<[first |-> n - 1, last |-> m - 1]>>

(***************************************************************************)
(* C4: parse(text, 0) ends with InvalidConfiguration for every text, no    *)
(* other error is reported when pageCount = 0, and InvalidConfiguration    *)
(* is never the outcome when pageCount >= 1.                               *)
(***************************************************************************)
C4_ZeroPageCount ==
    /\ pageCount = 0 /\ pc # "call" => pc = "done" /\ outcome = "InvalidConfiguration"
    /\ pageCount = 0 => outcome \notin ParseErrors \cup {"returned"}
    /\ pageCount >= 1 => outcome # "InvalidConfiguration"

\* a call with pageCount = 0 and a text no regex matches
C4_Witness ==
    /\ pc = "done"
    /\ pageCount = 0
    /\ s = <<"1", "a">>
    /\ outcome = "InvalidConfiguration"

(***************************************************************************)
(* What the token iterator yields, in terms of the sub-expressions: all of *)
(* them in order, except an empty last one that follows a separator.       *)
(***************************************************************************)
EndsWithSeparator(text) == text # <<>> /\ text[Len(text)] \in Separators

TokensAreSubExpressions ==
    pc # "call" =>
        /\ Len(tokens) = IF EndsWithSeparator(s) THEN SeparatorCount(s)
                         ELSE SubExpressionCount(s)
        /\ \A i \in 1..Len(tokens) : tokens[i] = SubExpression(s, i)

(***************************************************************************)
(* C3: every separator character separates: whenever parse returns         *)
(* normally the result has one entry per sub-expression (the number of     *)
(* separator characters plus one), the i-th entry derived from the i-th    *)
(* sub-expression; a text with a trailing separator has an empty           *)
(* sub-expression and does not return.                                     *)
(***************************************************************************)
C3_OneEntryPerSubExpression ==
    outcome = "returned" =>
        /\ Len(result) = SubExpressionCount(s)
        /\ \A i \in 1..Len(result) :
              \E o \in IterationOutcomes(SubExpression(s, i), pageCount) :
                  o.kind = "ok" /\ result[i] = Decrement(o.raw)

\* the same with the trailing empty sub-expression left out, as the token
\* iterator leaves it out
C3_OneEntryPerToken ==
    outcome = "returned" =>
        /\ Len(result) = IF EndsWithSeparator(s) THEN SeparatorCount(s)
                         ELSE SubExpressionCount(s)
        /\ \A i \in 1..Len(result) :
              \E o \in IterationOutcomes(SubExpression(s, i), pageCount) :
                  o.kind = "ok" /\ result[i] = Decrement(o.raw)

\* what an iteration on the i-th sub-expression of s may end with
Kinds(i) == {o.kind : o \in IterationOutcomes(SubExpression(s, i), pageCount)}

(***************************************************************************)
(* C5: with pageCount >= 1 parse fails if and only if some sub-expression  *)
(* is unrecognized or fails validation; a failed parse returns no entries, *)
(* and its error is that of the leftmost failing sub-expression.           *)
(***************************************************************************)
C5_AllOrNothing ==
    /\ pc = "done" /\ pageCount >= 1 => outcome \in ParseErrors \cup {"returned"}
    /\ outcome \in ParseErrors =>
          /\ result = <<>>
          /\ it \in 1..SubExpressionCount(s)
          /\ outcome \in Kinds(it)
          /\ \A j \in 1..(it - 1) : "ok" \in Kinds(j)
    /\ outcome = "returned" =>
          /\ Len(result) = SubExpressionCount(s)
          /\ \A i \in 1..SubExpressionCount(s) : "ok" \in Kinds(i)

\* the same over the tokens the loop iterates over
C5_AllOrNothingOverTokens ==
    /\ pc = "done" /\ pageCount >= 1 => outcome \in ParseErrors \cup {"returned"}
    /\ outcome \in ParseErrors =>
          /\ result = <<>>
          /\ it \in 1..Len(tokens)
          /\ outcome \in Kinds(it)
          /\ \A j \in 1..(it - 1) : "ok" \in Kinds(j)
    /\ outcome = "returned" =>
          /\ Len(result) = Len(tokens)
          /\ \A i \in 1..Len(tokens) : "ok" \in Kinds(i)

\* str without its white space
Squeeze(str) == SelectSeq(str, LAMBDA c : c \notin WhiteSpace)

\* white space stands between two digits of str with nothing else between
SplitsNumeral(str) ==
    \E a \in 1..Len(str) : \E b \in (a + 2)..Len(str) :
        /\ str[a] \in Digits
        /\ str[b] \in Digits
        /\ \A x \in (a + 1)..(b - 1) : str[x] \in WhiteSpace

\* str is one of the five shapes, white space permitted where the grammar permits it
InShape(str) ==
    LET core == Squeeze(str)
    IN  /\ core # <<>>
        /\ \A k \in 1..Len(core) : core[k] \in Digits \cup {"-"}
        /\ Cardinality({k \in 1..Len(core) : core[k] = "-"}) <= 1
        /\ ~SplitsNumeral(str)

FirstFailingCheck(e) ==
    CASE e.first > pageCount \/ e.last > pageCount -> "OutOfRange"
      [] e.first <= pageCount /\ e.last <= pageCount /\ e.last < e.first -> "InvalidOrder"
      [] e.first <= pageCount /\ e.last <= pageCount /\ e.last >= e.first /\ e.first = 0 ->
            "InvalidPageNumber"
      [] OTHER -> "ok"

Truncate(x) == IF x < 1 THEN 1 ELSE IF x > pageCount THEN pageCount ELSE x

(***************************************************************************)
(* C6: as the comment on parse documents, a page number equal to 0 or      *)
(* larger than pageCount is silently corrected to the nearest acceptable   *)
(* one, so that 0-42 with pageCount 10 yields {0, 9} and is no error.      *)
(***************************************************************************)
C6_SilentTruncation ==
    pc = "done" /\ pageCount >= 1 =>
        \A r \in ShapeRaw(s, 0..SizeMax) :
            (r.first = 0 \/ r.last > pageCount) /\ r.first <= r.last =>
                /\ outcome = "returned"
                /\ result = <<[first |-> Truncate(r.first) - 1, last |-> Truncate(r.last) - 1]>>

\* the numerals of str: its maximal runs of digits
NumeralsOf(str) ==
    {SubSeq(str, a, b) : <<a, b>> \in
        {ab \in (1..Len(str)) \X (1..Len(str)) :
            /\ ab[1] <= ab[2]
            /\ \A x \in ab[1]..ab[2] : str[x] \in Digits
            /\ (ab[1] = 1 \/ str[ab[1] - 1] \notin Digits)
            /\ (ab[2] = Len(str) \/ str[ab[2] + 1] \notin Digits)}}

\* the sub-expressions of the five shapes with a numeral of a value in range
\* that is greater than pageCount
TooLarge(i, range) ==
    /\ InShape(SubExpression(s, i))
    /\ \E n \in NumeralsOf(SubExpression(s, i)) :
          DecimalValue(n) > pageCount /\ DecimalValue(n) \in range

(***************************************************************************)
(* C10: a sub-expression with a numeral whose decimal value is greater     *)
(* than pageCount fails with OutOfRange, however long the numeral is: it   *)
(* is neither accepted nor reported under another error kind.              *)
(***************************************************************************)
C10_LargeNumeralOutOfRange ==
    \A i \in 1..SubExpressionCount(s) :
        (Accepted(i) \/ ThrewOn(i)) /\ TooLarge(i, Nat) =>
            ThrewOn(i) /\ outcome = "OutOfRange"

\* the same for the numerals that fit size_t
C10_InWidthNumeralOutOfRange ==
    \A i \in 1..SubExpressionCount(s) :
        (Accepted(i) \/ ThrewOn(i)) /\ TooLarge(i, 0..SizeMax) =>
            ThrewOn(i) /\ outcome = "OutOfRange"

\* the nearest character that is not white space, left and right of position p
\* ("" when there is none)
LeftOf(text, p) ==
    LET idx == {q \in 1..(p - 1) : text[q] \notin WhiteSpace}
    IN  IF idx = {} THEN "" ELSE text[CHOOSE q \in idx : \A x \in idx : x <= q]

RightOf(text, p) ==
    LET idx == {q \in (p + 1)..Len(text) : text[q] \notin WhiteSpace}
    IN  IF idx = {} THEN "" ELSE text[CHOOSE q \in idx : \A x \in idx : q <= x]

\* white space at an end of a sub-expression or beside a hyphen
Removable(text, p) ==
    /\ text[p] \in WhiteSpace
    /\ \/ LeftOf(text, p) \in Separators \cup {"-", ""}
       \/ RightOf(text, p) \in Separators \cup {"-", ""}

RemoveWhiteSpace(text) ==
    LET keep == {p \in 1..Len(text) : ~Removable(text, p)}
    IN  [k \in 1..Cardinality(keep) |->
            text[CHOOSE p \in keep : Cardinality({q \in keep : q <= p}) = k]]

(***************************************************************************)
(* C8: white space at the start or end of a sub-expression and on either   *)
(* side of its hyphen is ignored: parse of a text ends as parse of the     *)
(* text with that white space removed ends (same entries, or same error).  *)
(***************************************************************************)
C8_WhiteSpaceIgnored ==
    pc = "done" =>
        [outcome |-> outcome, result |-> result] \in parse(RemoveWhiteSpace(s), pageCount)

\* the same for the texts that do not end with a separator followed by
\* white space only
C8_WhiteSpaceIgnoredBeforeEnd ==
    pc = "done" /\ (EndsWithSeparator(RemoveWhiteSpace(s)) => EndsWithSeparator(s)) =>
        [outcome |-> outcome, result |-> result] \in parse(RemoveWhiteSpace(s), pageCount)

\* the state machine ends as the function says
EndsAsParse ==
    pc = "done" => [outcome |-> outcome, result |-> result] \in parse(s, pageCount)

TypeOK ==
    /\ pc \in {"call", "loop", "done"}
    /\ outcome \in {"pending", "returned", "InvalidConfiguration"} \cup ParseErrors
    /\ it \in 1..(MaxLen + 2)

=============================================================================
